---- MODULE Spec2Model ----
(***************************************************************************)
(* Literature Discovery & Synthesis Pipeline of EmpathyScale.              *)
(*                                                                         *)
(* Model of LiteratureSearchAgentGroup                                     *)
(* (src/agents/literature_search_agent_group.py) and of ResearchAPIClient  *)
(* and download_pdf (src/utils/research_api.py).                           *)
(* AcademicAPIManager.search_papers (src/utils/academic_api_manager.py)    *)
(* is modelled by its loop over the enabled APIs.                          *)
(*                                                                         *)
(* Python strings are TLA+ strings; TLC evaluates Len, SubSeq and \o on    *)
(* them, so strip / split / startswith / lower are computed character by   *)
(* character.  Python's None is the distinguished value None.              *)
(***************************************************************************)
EXTENDS Integers, Sequences, FiniteSets, TLC

VARIABLES
    pc,          \* position of the caller / orchestrator
    q_in,        \* outcome of llm.invoke handed to generate_queries
    queries,     \* list returned by generate_queries
    qi,          \* number of queries already searched (loop of search_and_screen)
    raw,         \* history: every adapter result, concatenated in call order
    all_papers,  \* all_papers of search_and_screen
    papers,      \* self.papers (the Paper objects; later stages mutate them)
    screened,    \* self.screened_papers: references (positions) into papers
    findings,    \* self.extracted_findings
    scr_in,      \* history: the screening response seen for each Paper of self.papers
    ext_in,      \* history: what the extractor made of the response for each Paper
    downloaded,  \* self.downloaded / return value of download_pdfs: references
    attempted,   \* history: references of the Papers download_pdfs iterated over
    disk,        \* files written by download_pdf
    dl_calls,    \* number of download_pdfs calls made
    results,     \* the dictionary returned by search_and_download
    ctx,         \* interview_summary handed to generate_queries / search_and_download
    srch_in,     \* history: what each adapter did in each search_all call
    trace,       \* history: stages entered, service calls, provider requests, sleeps
    api_results  \* the dictionary returned by AcademicAPIManager.search_papers

vars == <<pc, q_in, queries, qi, raw, all_papers, papers, screened, findings,
          scr_in, ext_in, downloaded, attempted, disk, dl_calls, results,
          ctx, srch_in, trace, api_results>>

\* the variables only the searcher and the API manager touch
side == <<ctx, srch_in, api_results>>

None == "<None>"

(***************************************************************************)
(* Bounds of the model.                                                    *)
(***************************************************************************)
MaxLines == 7          \* lines in one query-generation response
MaxRaw == 2            \* raw Papers the providers return in one run
MaxList == 4           \* length of a Paper list handed to the deduplicator
MaxDownloadCalls == 2  \* download_pdfs calls on one Paper list

(***************************************************************************)
(* Python string helpers.                                                  *)
(***************************************************************************)
Ch(s, i) == SubSeq(s, i, i)

UpperAlpha == "ABCDEFGHIJKLMNOPQRSTUVWXYZ"
LowerAlpha == "abcdefghijklmnopqrstuvwxyz"

\* the lower-case letter of each upper-case letter
LowerMap ==
    [c \in {Ch(UpperAlpha, i) : i \in 1..Len(UpperAlpha)} |->
        Ch(LowerAlpha, CHOOSE i \in 1..Len(UpperAlpha) : Ch(UpperAlpha, i) = c)]

\* str.lower() on one character
LowerCh(c) == IF c \in DOMAIN LowerMap THEN LowerMap[c] ELSE c

RECURSIVE LowerStr(_)
\* str.lower()
LowerStr(s) ==
    IF Len(s) = 0 THEN "" ELSE LowerCh(Ch(s, 1)) \o LowerStr(SubSeq(s, 2, Len(s)))

RECURSIVE LStripCh(_, _)
LStripCh(s, c) ==
    IF Len(s) > 0 /\ Ch(s, 1) = c THEN LStripCh(SubSeq(s, 2, Len(s)), c) ELSE s

RECURSIVE RStripCh(_, _)
RStripCh(s, c) ==
    IF Len(s) > 0 /\ Ch(s, Len(s)) = c THEN RStripCh(SubSeq(s, 1, Len(s) - 1), c) ELSE s

\* str.strip(c) for a one-character argument
StripCh(s, c) == RStripCh(LStripCh(s, c), c)

Whitespace == {" ", "\n", "\t"}

RECURSIVE LStripWs(_)
LStripWs(s) ==
    IF Len(s) > 0 /\ Ch(s, 1) \in Whitespace THEN LStripWs(SubSeq(s, 2, Len(s))) ELSE s

RECURSIVE RStripWs(_)
RStripWs(s) ==
    IF Len(s) > 0 /\ Ch(s, Len(s)) \in Whitespace
    THEN RStripWs(SubSeq(s, 1, Len(s) - 1)) ELSE s

\* str.strip()
StripWs(s) == RStripWs(LStripWs(s))

\* sub in s
Contains(s, sub) ==
    \E i \in 1..(Len(s) - Len(sub) + 1) : SubSeq(s, i, i + Len(sub) - 1) = sub

Digits == "0123456789"
IsDigit(c) == \E d \in 1..Len(Digits) : Ch(Digits, d) = c
DigitVal(c) == (CHOOSE d \in 1..Len(Digits) : Ch(Digits, d) = c) - 1

RECURSIVE ParseInt(_)
\* int(s) for a string of decimal digits
ParseInt(s) ==
    IF Len(s) = 0 THEN 0
    ELSE ParseInt(SubSeq(s, 1, Len(s) - 1)) * 10 + DigitVal(Ch(s, Len(s)))

\* str.startswith(p)
StartsWith(s, p) == Len(s) >= Len(p) /\ SubSeq(s, 1, Len(p)) = p

\* line.split('. ', 1)[-1]: the text after the first ". ", or the whole line
AfterFirstDotSpace(s) ==
    LET hits == {i \in 1..(Len(s) - 1) : SubSeq(s, i, i + 1) = ". "}
    IN  IF hits = {} THEN s
        ELSE LET i == CHOOSE k \in hits : \A m \in hits : k <= m
             IN  SubSeq(s, i + 2, Len(s))

Min(a, b) == IF a <= b THEN a ELSE b

\* Python slice xs[:n]
Prefix(xs, n) == SubSeq(xs, 1, Min(Len(xs), n))

RECURSIVE SeqsUpTo(_, _)
\* all sequences over S of length 0..n
SeqsUpTo(S, n) ==
    IF n = 0 THEN {<<>>}
    ELSE LET shorter == SeqsUpTo(S, n - 1)
         IN  shorter \cup {Append(xs, x) : xs \in {ys \in shorter : Len(ys) = n - 1}, x \in S}

(***************************************************************************)
(* generate_queries                                                        *)
(***************************************************************************)
MinQueries == 5
MaxQueries == 6
MinQueryLen == 10

GenericQuery == "robot empathy human-robot interaction"
MetaWords == {"Query", "Format", "Generate"}

\* the three canned queries of the except branch (definitions, behaviors,
\* measurement), here the defaults of its fallback.get calls
FallbackQueries == <<"robot empathy", "empathic robot", "empathy measurement">>

\* one response line with its numbering and quotes removed
CleanLine(line) ==
    StripCh(StripCh(StripWs(AfterFirstDotSpace(StripWs(line))), "\""), "'")

\* the filter of the parsing loop
KeepLine(line) ==
    /\ Len(line) > 0
    /\ Len(line) > MinQueryLen
    /\ \A w \in MetaWords : ~StartsWith(line, w)

RECURSIVE ParseQueries(_)
\* the parsing loop over response.content.split('\n')
ParseQueries(lines) ==
    IF lines = <<>> THEN <<>>
    ELSE LET l == CleanLine(Head(lines))
         IN  (IF KeepLine(l) THEN <<l>> ELSE <<>>) \o ParseQueries(Tail(lines))

RECURSIVE PadQueries(_)
\* while len(queries) < 5: queries.append(generic)
PadQueries(qs) ==
    IF Len(qs) < MinQueries THEN PadQueries(Append(qs, GenericQuery)) ELSE qs

\* generate_queries without its padding loop
generate_queries_nopad(o) ==
    IF o.raises THEN FallbackQueries
    ELSE Prefix(ParseQueries(o.lines), MaxQueries)

\* generate_queries with the fallback padded like a parsed response
generate_queries_padfallback(o) ==
    IF o.raises THEN PadQueries(FallbackQueries)
    ELSE Prefix(PadQueries(ParseQueries(o.lines)), MaxQueries)

\* generate_queries: o is what llm.invoke does, a raise or the response's lines
generate_queries(o) ==
    IF o.raises THEN FallbackQueries
    ELSE Prefix(PadQueries(ParseQueries(o.lines)), MaxQueries)

\* lines the service may answer with
LineSet ==
    { "1. robot empathy measurement scale",
      "  2. \"empathic robot behaviors in care\"  ",
      "Query 3: robot empathy definitions",
      "too short" }

QueryOutcomes ==
    {[raises |-> TRUE, lines |-> <<>>]}
    \cup {[raises |-> FALSE, lines |-> ls] : ls \in (SeqsUpTo(LineSet \cup {""}, 1) \ {<<>>})}
    \cup {[raises |-> FALSE, lines |-> ls] : ls \in (SeqsUpTo(LineSet, MaxLines) \ {<<>>})}

(***************************************************************************)
(* Python dictionaries: functions from keys to values.                     *)
(***************************************************************************)
\* d.get(k, default)
Get(d, k, default) == IF k \in DOMAIN d THEN d[k] ELSE default

\* d[k] = v
Put(d, k, v) == (k :> v) @@ d

\* truth value of an optional string
Truthy(v) == v # None /\ v # ""

(***************************************************************************)
(* Provider adapters (ResearchAPIClient).                                  *)
(***************************************************************************)
\* max_per_source of the calls search_and_screen makes
MaxPerSource == 20
RequestTimeout == 10

\* arxiv.Search(query=query, max_results=max_results, sort_by=Relevance), run
\* by self.client.results(search)
ArxivSearch(query, max_results) ==
    [ev |-> "request", to |-> "arxiv",
     args |-> [query |-> query, max_results |-> max_results, sort_by |-> "Relevance"]]

\* requests.get(url, timeout=10): the params dictionary built from query and
\* limit is not handed to the call
S2Get(query, limit) ==
    [ev |-> "request", to |-> "semantic_scholar",
     args |-> [url |-> "https://api.semanticscholar.org/graph/v1/paper/search",
               timeout |-> RequestTimeout]]

\* search_arxiv: one Paper per entry the arXiv client yielded; an exception
\* is caught and the Papers appended before it are returned
search_arxiv(o) ==
    [i \in 1..Len(o.items) |->
        [title |-> o.items[i].title,
         abstract |-> o.items[i].summary,
         url |-> o.items[i].pdf_url,
         year |-> o.items[i].published,
         source |-> "arXiv"]]

\* the dictionary {} and a JSON null standing where an object is expected
EmptyDict == <<>>
JsonNull == [json_null |-> TRUE]

\* paper.get("openAccessPdf", {})
OpenAccessPdf(p) == IF "openAccessPdf" \in DOMAIN p THEN p.openAccessPdf ELSE EmptyDict

\* the paper_dict built from one record of the Semantic Scholar response
S2PaperDict(p) ==
    [title |-> Get(p, "title", ""),
     abstract |-> Get(p, "abstract", ""),
     url |-> LET oa == Get(OpenAccessPdf(p), "url", None)
             IN  IF Truthy(oa) THEN oa ELSE Get(p, "url", ""),
     year |-> Get(p, "year", None),
     source |-> "Semantic Scholar"]

\* paper.get("openAccessPdf", {}).get("url") raises when the field is null
S2ItemRaises(p) == "json_null" \in DOMAIN OpenAccessPdf(p)

RECURSIVE S2Collect(_)
\* the loop over data["data"]: stops at the first record that raises
S2Collect(items) ==
    IF items = <<>> \/ S2ItemRaises(Head(items)) THEN <<>>
    ELSE LET d == S2PaperDict(Head(items))
         IN  (IF Truthy(d.url) \/ Truthy(d.abstract) THEN <<d>> ELSE <<>>)
             \o S2Collect(Tail(items))

HttpOk == 200

\* search_semantic_scholar: o.raises is requests.get or response.json raising
search_semantic_scholar(o) ==
    IF o.raises THEN <<>>
    ELSE IF o.status # HttpOk THEN <<>>
    ELSE S2Collect(o.items)

RECURSIVE FirstSeenS(_, _)
\* the loop of search_all over the Papers of all sources, seen_titles = seen
FirstSeenS(ps, seen) ==
    IF ps = <<>> THEN <<>>
    ELSE LET k == LowerStr(Head(ps).title)
         IN  IF k \in seen THEN FirstSeenS(Tail(ps), seen)
             ELSE <<Head(ps)>> \o FirstSeenS(Tail(ps), seen \cup {k})

\* paper['title'].lower() raises AttributeError on a None title
TitleRaises(ps) == \E i \in 1..Len(ps) : ps[i].title = None

\* search_all without its seen_titles test
search_all_keepall(oa, os) ==
    LET got == search_arxiv(oa) \o search_semantic_scholar(os)
    IN  IF TitleRaises(got) THEN [raises |-> TRUE, papers |-> <<>>]
        ELSE [raises |-> FALSE, papers |-> got]

\* search_all(query) with sources ["arxiv", "semantic_scholar"]
search_all(oa, os) ==
    LET got == search_arxiv(oa) \o search_semantic_scholar(os)
    IN  IF TitleRaises(got) THEN [raises |-> TRUE, papers |-> <<>>]
        ELSE [raises |-> FALSE, papers |-> FirstSeenS(got, {})]

(***************************************************************************)
(* Deduplicator (search_and_screen).                                       *)
(***************************************************************************)
\* the title key without .lower()
TitleKeyExact(p) == p.title

\* title_lower = paper['title'].lower()
TitleKey(p) == LowerStr(p.title)

RECURSIVE DedupLoop(_, _)
DedupLoop(ps, seen) ==
    IF ps = <<>> THEN <<>>
    ELSE IF TitleKey(Head(ps)) \in seen THEN DedupLoop(Tail(ps), seen)
    ELSE <<Head(ps)>> \o DedupLoop(Tail(ps), seen \cup {TitleKey(Head(ps))})

RECURSIVE LastSeenLoop(_)
LastSeenLoop(ps) ==
    IF ps = <<>> THEN <<>>
    ELSE IF \E i \in 2..Len(ps) : TitleKey(ps[i]) = TitleKey(Head(ps))
    THEN LastSeenLoop(Tail(ps))
    ELSE <<Head(ps)>> \o LastSeenLoop(Tail(ps))

\* a deduplicator that keeps the last Paper of each title key
DeduplicateLastWins(ps) == LastSeenLoop(ps)

\* unique_papers of search_and_screen
Deduplicate(ps) == DedupLoop(ps, {})

(***************************************************************************)
(* Relevance Screener (_screen_relevance).                                 *)
(***************************************************************************)
ScreenCap == 80
DefaultScore == 3
AcceptScore == 3
DefaultReason == "Relevance assessment"

RECURSIVE SkipWs(_, _)
\* the position \s* reaches from position j
SkipWs(s, j) ==
    IF j <= Len(s) /\ Ch(s, j) \in Whitespace THEN SkipWs(s, j + 1) ELSE j

RECURSIVE DigitRun(_, _)
\* what (\d+) takes from position j; "" when no digit stands there
DigitRun(s, j) ==
    IF j <= Len(s) /\ IsDigit(Ch(s, j)) THEN Ch(s, j) \o DigitRun(s, j + 1) ELSE ""

\* positions where SCORE:\s*(\d+) matches
ScoreHits(content) ==
    {i \in 1..(Len(content) - 5) :
        /\ SubSeq(content, i, i + 5) = "SCORE:"
        /\ DigitRun(content, SkipWs(content, i + 6)) # ""}

\* a parser whose score is 0 when no labeled integer is found
ParseScoreZeroDefault(content) ==
    IF Contains(content, "SCORE:") /\ ScoreHits(content) # {}
    THEN LET i == CHOOSE k \in ScoreHits(content) : \A m \in ScoreHits(content) : k <= m
         IN  ParseInt(DigitRun(content, SkipWs(content, i + 6)))
    ELSE 0

\* the score parsed from a screening response
ParseScore(content) ==
    IF Contains(content, "SCORE:") /\ ScoreHits(content) # {}
    THEN LET i == CHOOSE k \in ScoreHits(content) : \A m \in ScoreHits(content) : k <= m
         IN  ParseInt(DigitRun(content, SkipWs(content, i + 6)))
    ELSE DefaultScore

\* positions where REASON:\s*(.+) matches (DOTALL: any character after the label)
ReasonHits(content) ==
    {i \in 1..(Len(content) - 7) : SubSeq(content, i, i + 6) = "REASON:"}

\* the reason parsed from a screening response
ParseReason(content) ==
    IF Contains(content, "REASON:") /\ ReasonHits(content) # {}
    THEN LET i == CHOOSE k \in ReasonHits(content) : \A m \in ReasonHits(content) : k <= m
         IN  StripWs(SubSeq(content, i + 7, Len(content)))
    ELSE DefaultReason

\* the acceptance test with the threshold one too low
AcceptFromTwo(score) == score >= AcceptScore - 1

\* if score >= 3
Accept(score) == score >= AcceptScore

AbstractCap == 500

\* the keyword arguments of screening_prompt_template.format
ScreenPrompt(paper) ==
    [title |-> Get(paper, "title", ""),
     abstract |-> Prefix(Get(paper, "abstract", ""), AbstractCap),
     focus |-> "definitions"]

\* a prompt that is built for every Paper
PromptNeverRaises(paper) == FALSE

\* building the prompt raises: paper.get('abstract', '')[:500] on a null abstract
PromptRaises(paper) == Get(paper, "abstract", "") = None

\* the body of the try block for one Paper raises: the abstract slice on a null
\* abstract, or llm.invoke
ScreenRaises(paper, o) == PromptRaises(paper) \/ o.raises

RECURSIVE ScreenLoop(_, _, _, _)
\* the loop over papers[:80], at position i; acc = [papers, screened]
ScreenLoop(ps, outs, i, acc) ==
    IF i > Min(Len(ps), ScreenCap) THEN acc
    ELSE IF ScreenRaises(ps[i], outs[i]) THEN ScreenLoop(ps, outs, i + 1, acc)
    ELSE LET score == ParseScore(outs[i].content)
             reason == ParseReason(outs[i].content)
         IN  IF Accept(score)
             THEN ScreenLoop(ps, outs, i + 1,
                    [papers |-> [acc.papers EXCEPT ![i] =
                                    Put(Put(@, "relevance_score", score),
                                        "relevance_reason", reason)],
                     screened |-> Append(acc.screened, i)])
             ELSE ScreenLoop(ps, outs, i + 1, acc)

RECURSIVE ScreenLoopAbort(_, _, _, _)
ScreenLoopAbort(ps, outs, i, acc) ==
    IF i > Min(Len(ps), ScreenCap) THEN acc
    ELSE IF ScreenRaises(ps[i], outs[i]) THEN acc
    ELSE LET score == ParseScore(outs[i].content)
             reason == ParseReason(outs[i].content)
         IN  IF Accept(score)
             THEN ScreenLoopAbort(ps, outs, i + 1,
                    [papers |-> [acc.papers EXCEPT ![i] =
                                    Put(Put(@, "relevance_score", score),
                                        "relevance_reason", reason)],
                     screened |-> Append(acc.screened, i)])
             ELSE ScreenLoopAbort(ps, outs, i + 1, acc)

\* _screen_relevance with the try block around the loop instead of inside it
screen_relevance_abort(ps, outs) ==
    ScreenLoopAbort(ps, outs, 1, [papers |-> ps, screened |-> <<>>])

\* _screen_relevance(papers, focus_areas); outs[i] is the service's answer for
\* the Paper at position i
screen_relevance(ps, outs) == ScreenLoop(ps, outs, 1, [papers |-> ps, screened |-> <<>>])

ScreenOutcomes ==
    { [raises |-> TRUE, content |-> ""],
      [raises |-> FALSE, content |-> "SCORE: 5\nREASON: defines robot empathy\n"],
      [raises |-> FALSE, content |-> "SCORE: 2\nREASON: off topic"],
      [raises |-> FALSE, content |-> "REASON: unclear SCORE: high"],
      [raises |-> FALSE, content |-> "The paper looks useful." ] }

(***************************************************************************)
(* Findings Extractor (extract_findings).                                  *)
(*                                                                         *)
(* A response is a sequence of tokens: LB and RB for "{" and "}", TXT for  *)
(* prose, and Member(key, value) for a member of a JSON object.  JSON      *)
(* values are Str(text), List(items) and Num(n).                           *)
(***************************************************************************)
ExtractCap == 50

LB == [tok |-> "{"]
RB == [tok |-> "}"]
TXT == [tok |-> "txt"]
Member(key, value) == [tok |-> "member", k |-> key, v |-> value]
Str(x) == [t |-> "str", s |-> x]
List(x) == [t |-> "list", xs |-> x]
Num(x) == [t |-> "num", n |-> x]

IsMember(token) == token.tok = "member"

\* re.search(r'\{.*\}', content, re.DOTALL): from the first "{" to the last "}"
BraceMatch(content) ==
    LET opens == {i \in 1..Len(content) : content[i].tok = "{"}
        first == CHOOSE i \in opens : \A j \in opens : i <= j
        closes == {i \in 1..Len(content) : content[i].tok = "}" /\ i > first}
        last == CHOOSE i \in closes : \A j \in closes : i >= j
    IN  IF opens = {} THEN <<>>
        ELSE IF closes = {} THEN <<>>
        ELSE SubSeq(content, first, last)

\* json.loads raises unless the text is one object: members between the braces
JsonValid(text) ==
    /\ Len(text) >= 2
    /\ \A i \in 2..(Len(text) - 1) : IsMember(text[i])

RECURSIVE JsonObject(_, _)
\* the dictionary json.loads builds from the members (a repeated key: last wins)
JsonObject(members, d) ==
    IF members = <<>> THEN d
    ELSE JsonObject(Tail(members), Put(d, Head(members).k, Head(members).v))

JsonLoads(text) == JsonObject(SubSeq(text, 2, Len(text) - 1), EmptyDict)

\* what one iteration of extract_findings does with the service's answer:
\* "raise", "no_match", "bad_json" or "ok"
ExtractKind(o) ==
    IF o.raises THEN "raise"
    ELSE IF BraceMatch(o.content) = <<>> THEN "no_match"
    ELSE IF ~JsonValid(BraceMatch(o.content)) THEN "bad_json"
    ELSE "ok"

\* the parsed object appended as it is, without the back-reference
MakeFindingBare(paper, o) == JsonLoads(BraceMatch(o.content))

\* the Finding appended for one Paper
MakeFinding(paper, o) ==
    Put(Put(JsonLoads(BraceMatch(o.content)), "paper_title", Get(paper, "title", None)),
        "paper_year", Get(paper, "year", None))

RECURSIVE ExtractLoop(_, _, _, _)
\* the loop over papers[:50], at position i of the list refs handed in
ExtractLoop(ps, refs, outs, i) ==
    IF i > Min(Len(refs), ExtractCap) THEN <<>>
    ELSE (IF ExtractKind(outs[i]) = "ok" THEN <<MakeFinding(ps[refs[i]], outs[i])>>
          ELSE <<>>)
         \o ExtractLoop(ps, refs, outs, i + 1)

RECURSIVE ExtractLoopAbort(_, _, _, _)
ExtractLoopAbort(ps, refs, outs, i) ==
    IF i > Min(Len(refs), ExtractCap) THEN <<>>
    ELSE IF ExtractKind(outs[i]) \in {"raise", "bad_json"} THEN <<>>
    ELSE (IF ExtractKind(outs[i]) = "ok" THEN <<MakeFinding(ps[refs[i]], outs[i])>>
          ELSE <<>>)
         \o ExtractLoopAbort(ps, refs, outs, i + 1)

\* extract_findings with the try block around the loop instead of inside it
extract_findings_abort(ps, refs, outs) == ExtractLoopAbort(ps, refs, outs, 1)

\* extract_findings(papers): refs is the list handed in, outs[i] the service's
\* answer for its i-th Paper
extract_findings(ps, refs, outs) == ExtractLoop(ps, refs, outs, 1)

DefMember == Member("empathy_definition", Str("feeling with the user"))
BehMember == Member("behaviors_identified", List(<<"gaze", "speech">>))
MethMember == Member("measurement_methods", Str("questionnaire"))
TitleMember == Member("paper_title", Str("another title"))

ExtractOutcomes ==
    { [raises |-> TRUE, content |-> <<>>],
      [raises |-> FALSE, content |-> <<TXT>>],
      [raises |-> FALSE, content |-> <<TXT, LB, TXT, RB>>],
      [raises |-> FALSE, content |-> <<TXT, LB, DefMember, BehMember, RB, TXT>>],
      [raises |-> FALSE, content |-> <<LB, MethMember, TitleMember, RB>>],
      [raises |-> FALSE, content |-> <<LB, DefMember, RB, TXT, LB, RB>>] }

(***************************************************************************)
(* Categorized Downloader (download_pdfs, download_pdf).                   *)
(***************************************************************************)
DownloadCap == 50
Categories == <<"definitions", "behaviors", "measurement">>

\* f"{i:02d}" for i < 100
TwoDigits(i) == Ch(Digits, (i \div 10) + 1) \o Ch(Digits, (i % 10) + 1)

\* the category taken by the zero-based position
CategoryOfZeroBased(i) == Categories[((i - 1) % Len(Categories)) + 1]

\* categories[i % len(categories)]
CategoryOf(i) == Categories[(i % Len(Categories)) + 1]

\* pdfs_dir / f"paper_{i:02d}_{year}.pdf"
FilePath(run_id, i, paper) ==
    "data/runs/" \o run_id \o "/literature_search_agent_group/pdfs/" \o CategoryOf(i)
    \o "/paper_" \o TwoDigits(i) \o "_"
    \o (IF Truthy(Get(paper, "year", None)) THEN paper.year ELSE "unknown") \o ".pdf"

\* download_pdf(url, save_path): "ok" writes the file and returns True;
\* "http_error" raises before the file is opened; "write_error" raises after
\* open(save_path, 'wb') created it.  Both failures return False.
FetchOutcomes == {"ok", "http_error", "write_error"}
download_pdf(o) == o = "ok"
FileCreated(o) == o \in {"ok", "write_error"}

\* the success branch without the category field
MarkDownloadedNoCategory(paper, path, category) ==
    Put(Put(Put(paper, "local_pdf_path", path), "downloaded", TRUE),
        "downloaded_at", "now")

\* the fields set on a Paper whose download succeeded
MarkDownloaded(paper, path, category) ==
    Put(Put(Put(Put(paper, "local_pdf_path", path), "downloaded", TRUE),
            "downloaded_at", "now"), "category", category)

\* paper['downloaded'] = False
MarkFailed(paper) == Put(paper, "downloaded", FALSE)

RECURSIVE DownloadLoop(_, _, _, _, _)
\* the loop over papers[:50], at position i of the list refs handed in;
\* acc = [papers, downloaded, disk]
DownloadLoop(refs, outs, run_id, i, acc) ==
    IF i > Min(Len(refs), DownloadCap) THEN acc
    ELSE LET r == refs[i]
             paper == acc.papers[r]
             path == FilePath(run_id, i, paper)
         IN  IF Truthy(Get(paper, "url", None))
             THEN IF download_pdf(outs[i])
                  THEN DownloadLoop(refs, outs, run_id, i + 1,
                         [papers |-> [acc.papers EXCEPT ![r] =
                                         MarkDownloaded(@, path, CategoryOf(i))],
                          downloaded |-> Append(acc.downloaded, r),
                          disk |-> acc.disk \cup {path}])
                  ELSE DownloadLoop(refs, outs, run_id, i + 1,
                         [papers |-> [acc.papers EXCEPT ![r] = MarkFailed(@)],
                          downloaded |-> acc.downloaded,
                          disk |-> IF FileCreated(outs[i]) THEN acc.disk \cup {path}
                                   ELSE acc.disk])
             ELSE DownloadLoop(refs, outs, run_id, i + 1,
                    [papers |-> [acc.papers EXCEPT ![r] = MarkFailed(@)],
                     downloaded |-> acc.downloaded,
                     disk |-> acc.disk])

\* download_pdfs appending every Paper of the loop to the returned list
download_pdfs_all(ps, refs, outs, run_id, files) ==
    [DownloadLoop(refs, outs, run_id, 1,
                  [papers |-> ps, downloaded |-> <<>>, disk |-> files])
     EXCEPT !.downloaded = Prefix(refs, DownloadCap)]

\* download_pdfs(papers, run_id): refs is the list handed in, outs[i] what the
\* fetch of its i-th Paper does, files the files already on disk
download_pdfs(ps, refs, outs, run_id, files) ==
    DownloadLoop(refs, outs, run_id, 1, [papers |-> ps, downloaded |-> <<>>, disk |-> files])

(***************************************************************************)
(* Results Organizer (organize_results).                                   *)
(***************************************************************************)
VerbalKeywords == {"speech", "verbal", "language", "words"}
NonverbalKeywords == {"gesture", "gaze", "expression", "face"}

\* truth value of a JSON value
JsonTruthy(v) ==
    IF v.t = "str" THEN v.s # ""
    ELSE IF v.t = "list" THEN v.xs # <<>>
    ELSE v.n # 0

RECURSIVE Join(_)
\* ', '.join(str(b) for b in behaviors)
Join(xs) ==
    IF xs = <<>> THEN ""
    ELSE IF Len(xs) = 1 THEN xs[1]
    ELSE xs[1] \o ", " \o Join(Tail(xs))

\* isinstance(behaviors, list) or isinstance(behaviors, str)
IsText(v) == v.t \in {"str", "list"}

\* the behavior string of a Finding, lists joined
BehaviorText(v) == IF v.t = "list" THEN Join(v.xs) ELSE v.s

\* the keyword test with the nonverbal keywords tried first
BucketNonverbalFirst(text) ==
    IF \E kw \in NonverbalKeywords : Contains(LowerStr(text), kw) THEN "nonverbal"
    ELSE IF \E kw \in VerbalKeywords : Contains(LowerStr(text), kw) THEN "verbal"
    ELSE "adaptive"

\* the bucket the keyword test picks
Bucket(text) ==
    IF \E kw \in VerbalKeywords : Contains(LowerStr(text), kw) THEN "verbal"
    ELSE IF \E kw \in NonverbalKeywords : Contains(LowerStr(text), kw) THEN "nonverbal"
    ELSE "adaptive"

EmptyOrganized ==
    [empathy_definitions |-> <<>>,
     empathic_behaviors |-> [verbal |-> <<>>, nonverbal |-> <<>>, adaptive |-> <<>>],
     measurement_approaches |-> <<>>,
     existing_scales |-> <<>>]

\* the body of the loop of organize_results for one Finding
OrganizeOne(org, finding) ==
    LET def == Get(finding, "empathy_definition", Str(""))
        beh == Get(finding, "behaviors_identified", Str(""))
        meth == Get(finding, "measurement_methods", Str(""))
        text == BehaviorText(beh)
        o1 == IF JsonTruthy(def)
              THEN [org EXCEPT !.empathy_definitions =
                       Append(@, [definition |-> def, source |-> finding.paper_title,
                                  year |-> Get(finding, "paper_year", None)])]
              ELSE org
        o2 == IF JsonTruthy(beh) /\ IsText(beh) /\ StripWs(text) # ""
              THEN [o1 EXCEPT !.empathic_behaviors[Bucket(text)] = Append(@, text)]
              ELSE o1
    IN  IF JsonTruthy(meth)
        THEN [o2 EXCEPT !.measurement_approaches =
                 Append(@, [method |-> meth, source |-> finding.paper_title])]
        ELSE o2

RECURSIVE OrganizeLoop(_, _)
OrganizeLoop(fs, org) ==
    IF fs = <<>> THEN org ELSE OrganizeLoop(Tail(fs), OrganizeOne(org, Head(fs)))

\* organize_results(), reading self.extracted_findings = fs
organize_results(fs) == OrganizeLoop(fs, EmptyOrganized)

\* the dictionary with total_papers_found taken from the wrong list
CompileResultsQueries(qs, ps, scr, fs, dl, org) ==
    [search_queries |-> qs,
     total_papers_found |-> Len(qs),
     screened_papers |-> Len(scr),
     extracted_findings |-> Len(fs),
     pdfs_downloaded |-> Len(dl),
     organized_findings |-> org,
     downloaded_papers |-> dl,
     all_findings |-> fs]

\* the dictionary with the screened count reported as the total found
CompileResultsScreenedTotal(qs, ps, scr, fs, dl, org) ==
    [search_queries |-> qs,
     total_papers_found |-> Len(scr),
     screened_papers |-> Len(scr),
     extracted_findings |-> Len(fs),
     pdfs_downloaded |-> Len(dl),
     organized_findings |-> org,
     downloaded_papers |-> dl,
     all_findings |-> fs]

\* the dictionary search_and_download returns
CompileResults(qs, ps, scr, fs, dl, org) ==
    [search_queries |-> qs,
     total_papers_found |-> Len(ps),
     screened_papers |-> Len(scr),
     extracted_findings |-> Len(fs),
     pdfs_downloaded |-> Len(dl),
     organized_findings |-> org,
     downloaded_papers |-> dl,
     all_findings |-> fs]

(***************************************************************************)
(* The interview summary and the prompt of generate_queries.               *)
(***************************************************************************)
\* an interview summary with every field the generator reads
FullContext ==
    [assessment_context |-> "hospital ward",
     robot_platform |-> "Pepper",
     interaction_modalities |-> "speech",
     assessment_goals |-> <<"measure empathy", "compare robots">>]

\* the keyword arguments with '' where the code has 'N/A'
QueryPromptEmptyDefault(c) ==
    [context |-> Get(c, "assessment_context", ""),
     platform |-> Get(c, "robot_platform", ""),
     interaction_modalities |-> Get(c, "interaction_modalities", ""),
     goals |-> IF Get(c, "assessment_goals", <<>>) # <<>>
               THEN Join(Get(c, "assessment_goals", <<>>)) ELSE ""]

\* the keyword arguments of template.format(...): a field interview_summary
\* lacks is replaced by 'N/A', an absent or empty goal list too
QueryPrompt(c) ==
    [context |-> Get(c, "assessment_context", "N/A"),
     platform |-> Get(c, "robot_platform", "N/A"),
     interaction_modalities |-> Get(c, "interaction_modalities", "N/A"),
     goals |-> IF Get(c, "assessment_goals", <<>>) # <<>>
               THEN Join(Get(c, "assessment_goals", <<>>)) ELSE "N/A"]

\* entries of the trace
Stage(name) == [ev |-> "stage", name |-> name]
LlmInvoke(prompt) == [ev |-> "llm.invoke", prompt |-> prompt]

RECURSIVE ScreenCalls(_, _)
\* the service calls of _screen_relevance over papers[:80], from position i: one
\* for each Paper whose prompt was built
ScreenCalls(ps, i) ==
    IF i > Min(Len(ps), ScreenCap) THEN <<>>
    ELSE (IF PromptRaises(ps[i]) THEN <<>> ELSE <<LlmInvoke(ScreenPrompt(ps[i]))>>)
         \o ScreenCalls(ps, i + 1)

\* the keyword arguments of extraction_template.format
ExtractPrompt(paper) ==
    [title |-> Get(paper, "title", ""), abstract |-> Get(paper, "abstract", "")]

RECURSIVE ExtractCalls(_, _, _)
\* the service calls of extract_findings over papers[:50], from position i
ExtractCalls(ps, refs, i) ==
    IF i > Min(Len(refs), ExtractCap) THEN <<>>
    ELSE <<LlmInvoke(ExtractPrompt(ps[refs[i]]))>> \o ExtractCalls(ps, refs, i + 1)

(***************************************************************************)
(* The deduplicator alone: Init draws the accumulated list.                *)
(***************************************************************************)
DedupPool ==
    { [title |-> "Robot Empathy", abstract |-> "a1", url |-> "http://arxiv.org/pdf/1",
       year |-> "2020", source |-> "arXiv"],
      [title |-> "robot empathy", abstract |-> "", url |-> "http://s2.org/p/2",
       year |-> "2021", source |-> "Semantic Scholar"],
      [title |-> "ROBOT EMPATHY", abstract |-> "a3", url |-> "",
       year |-> None, source |-> "PubMed"],
      [title |-> "Robot Trust", abstract |-> "a4", url |-> "http://arxiv.org/pdf/4",
       year |-> "2019", source |-> "arXiv"],
      [title |-> "Robot trust", abstract |-> "a5", url |-> "",
       year |-> "2019", source |-> "Semantic Scholar"] }

(***************************************************************************)
(* The query generator alone: Init draws the service's outcome.            *)
(***************************************************************************)
Idle ==
    /\ queries = <<>> /\ qi = 0 /\ raw = <<>> /\ all_papers = <<>>
    /\ papers = <<>> /\ screened = <<>> /\ findings = <<>> /\ scr_in = <<>> /\ ext_in = <<>>
    /\ downloaded = <<>> /\ attempted = <<>> /\ disk = {} /\ dl_calls = 0
    /\ results = EmptyDict
    /\ srch_in = <<>> /\ trace = <<>> /\ api_results = EmptyDict

NoOutcome == [raises |-> FALSE, lines |-> <<>>]

InitQ ==
    /\ pc = "q_start"
    /\ q_in \in QueryOutcomes
    /\ ctx = FullContext
    /\ Idle

QGenerate ==
    /\ pc = "q_start"
    /\ queries' = generate_queries(q_in)
    /\ pc' = "q_done"
    /\ UNCHANGED <<q_in, qi, raw, all_papers, papers, screened, findings, scr_in,
                   ext_in, downloaded, attempted, disk, dl_calls, results>>
    /\ trace' = trace \o <<Stage("generate_queries"), LlmInvoke(QueryPrompt(ctx))>>
    /\ UNCHANGED side

NextQ == QGenerate

SpecQ == InitQ /\ [][NextQ]_vars


InitD ==
    /\ pc = "d_start"
    /\ all_papers \in SeqsUpTo(DedupPool, MaxList)
    /\ q_in = NoOutcome /\ queries = <<>> /\ qi = 0 /\ raw = <<>>
    /\ papers = <<>> /\ screened = <<>> /\ findings = <<>> /\ scr_in = <<>> /\ ext_in = <<>>
    /\ downloaded = <<>> /\ attempted = <<>> /\ disk = {} /\ dl_calls = 0
    /\ results = EmptyDict
    /\ ctx = FullContext /\ srch_in = <<>> /\ trace = <<>> /\ api_results = EmptyDict

\* the deduplicator applied to the drawn list
DDeduplicate ==
    /\ pc = "d_start"
    /\ papers' = Deduplicate(all_papers)
    /\ raw' = all_papers
    /\ pc' = "d_once"
    /\ UNCHANGED <<q_in, queries, qi, all_papers, screened, findings, scr_in,
                   ext_in, downloaded, attempted, disk, dl_calls, results>>
    /\ UNCHANGED <<side, trace>>

\* the deduplicator applied to its own output
DDeduplicateAgain ==
    /\ pc = "d_once"
    /\ all_papers' = papers
    /\ papers' = Deduplicate(papers)
    /\ pc' = "d_twice"
    /\ UNCHANGED <<q_in, queries, qi, raw, screened, findings, scr_in, ext_in,
                   downloaded, attempted, disk, dl_calls, results>>
    /\ UNCHANGED <<side, trace>>

NextD == DDeduplicate \/ DDeduplicateAgain

SpecD == InitD /\ [][NextD]_vars


\* positions of the list refs whose Paper has a URL: download_pdf is called for
\* these and for no other
FetchPositions(ps, refs) ==
    {i \in 1..Min(Len(refs), DownloadCap) : Truthy(Get(ps[refs[i]], "url", None))}

\* what each fetch of one download_pdfs call does, f giving the called ones
FetchResults(ps, refs, f) ==
    [i \in 1..Len(refs) |-> IF i \in DOMAIN f THEN f[i] ELSE "not_called"]

(***************************************************************************)
(* The query generator on incomplete interview summaries and on response   *)
(* lines around the length limit: Init draws the summary and the outcome.  *)
(***************************************************************************)
MaxParseLines == 2

\* the dictionary c without the key k
Without(c, k) == [x \in (DOMAIN c) \ {k} |-> c[x]]

\* the fields generate_queries reads
ContextFields ==
    {"assessment_context", "robot_platform", "interaction_modalities", "assessment_goals"}

\* interview summaries: complete, lacking one field, with an empty goal
\* list, and empty
Contexts ==
    {FullContext, EmptyDict, [FullContext EXCEPT !.assessment_goals = <<>>]}
    \cup {Without(FullContext, k) : k \in ContextFields}

\* response lines of 9, 10 and 11 characters once cleaned, and meta lines
ParseLineSet ==
    { "empathy 9",
      "robot care",
      "3. \"robot care\"",
      "robot cares",
      "Query: robot empathy scales",
      "'Format the robot empathy list'" }

ParseOutcomes ==
    {[raises |-> TRUE, lines |-> <<>>]}
    \cup {[raises |-> FALSE, lines |-> ls] : ls \in SeqsUpTo(ParseLineSet, MaxParseLines)}

InitP ==
    /\ pc = "q_start"
    /\ q_in \in ParseOutcomes
    /\ ctx \in Contexts
    /\ Idle

SpecP == InitP /\ [][NextQ]_vars

(***************************************************************************)
(* The relevance screener alone: Init draws the deduplicated list, the     *)
(* action draws the service's answer for each Paper.                       *)
(***************************************************************************)
MaxScreenPapers == 2

ScreenPool ==
    { [title |-> "Robot Empathy", abstract |-> "a1", url |-> "http://arxiv.org/pdf/1",
       year |-> "2020", source |-> "arXiv"],
      [title |-> "Social Robots", abstract |-> None, url |-> "http://s2.org/3.pdf",
       year |-> "2022", source |-> "Semantic Scholar"] }

\* answers of the service to the screening prompt: labeled scores inside and
\* outside 1..5, one of many digits, one with no digits, none at all
ScoreOutcomes ==
    { [raises |-> TRUE, content |-> ""],
      [raises |-> FALSE, content |-> "SCORE: 0\nREASON: unrelated"],
      [raises |-> FALSE, content |-> "SCORE: 2\nREASON: off topic"],
      [raises |-> FALSE, content |-> "SCORE:3"],
      [raises |-> FALSE, content |-> "SCORE: 9\nREASON: excellent"],
      [raises |-> FALSE, content |-> "Relevance SCORE:  12345 REASON: "],
      [raises |-> FALSE, content |-> "SCORE: high\nREASON: clearly relevant"],
      [raises |-> FALSE, content |-> "The paper looks useful."] }

InitR ==
    /\ pc = "r_start"
    /\ papers \in SeqsUpTo(ScreenPool, MaxScreenPapers)
    /\ q_in = NoOutcome /\ queries = <<>> /\ qi = 0 /\ raw = <<>> /\ all_papers = <<>>
    /\ screened = <<>> /\ findings = <<>> /\ scr_in = <<>> /\ ext_in = <<>>
    /\ downloaded = <<>> /\ attempted = <<>> /\ disk = {} /\ dl_calls = 0
    /\ results = EmptyDict
    /\ ctx = FullContext /\ srch_in = <<>> /\ trace = <<>> /\ api_results = EmptyDict

\* screened = self._screen_relevance(unique_papers, focus_areas)
RScreen ==
    /\ pc = "r_start"
    /\ \E outs \in [1..Len(papers) -> ScoreOutcomes] :
       \E r \in {screen_relevance(papers, outs)} :
         /\ papers' = r.papers
         /\ screened' = r.screened
         /\ scr_in' = outs
    /\ trace' = trace \o ScreenCalls(papers, 1)
    /\ pc' = "r_done"
    /\ UNCHANGED <<q_in, queries, qi, raw, all_papers, findings, ext_in,
                   downloaded, attempted, disk, dl_calls, results, side>>

NextR == RScreen

SpecR == InitR /\ [][NextR]_vars

(***************************************************************************)
(* The searcher alone: the query loop of search_and_screen and the         *)
(* deduplication after it, with what each adapter did kept in srch_in.     *)
(***************************************************************************)
MaxSearchItems == 1

\* the query list handed to search_and_screen
SearcherQueries == <<"robot empathy", "empathic robot">>

\* entries the arXiv client yields
SArxivItems ==
    { [title |-> "Robot Empathy", summary |-> "a1", pdf_url |-> "http://arxiv.org/pdf/1",
       published |-> "2020"] }

\* records of a Semantic Scholar response: a complete one, one with the title
\* of the arXiv entry in other case, one whose openAccessPdf is null, one whose
\* title is null, one with no title key
SS2Items ==
    { [title |-> "Social Robots", abstract |-> "s1", url |-> "http://s2.org/p/1",
       year |-> "2022"],
      [title |-> "robot empathy", abstract |-> "s2", url |-> "http://s2.org/p/2",
       year |-> "2021"],
      [title |-> "Robot Trust", abstract |-> "s4", openAccessPdf |-> JsonNull],
      [title |-> None, abstract |-> "s3"],
      [abstract |-> "s5", url |-> "http://s2.org/p/5"] }

\* the arXiv client yields xs and then ends or raises
SArxivOutcomes ==
    {[raises |-> r, items |-> xs] : r \in BOOLEAN, xs \in SeqsUpTo(SArxivItems, MaxSearchItems)}

\* requests.get raises, answers 429, or answers 200 with records xs
SS2Outcomes ==
    {[raises |-> TRUE, status |-> HttpOk, items |-> <<>>],
     [raises |-> FALSE, status |-> 429, items |-> <<>>]}
    \cup {[raises |-> FALSE, status |-> HttpOk, items |-> xs] :
             xs \in SeqsUpTo(SS2Items, MaxSearchItems)}

\* an exception was raised inside search_semantic_scholar
S2Raised(o) ==
    o.raises \/ (o.status = HttpOk /\ \E i \in 1..Len(o.items) : S2ItemRaises(o.items[i]))

InitS ==
    /\ pc = "s_search"
    /\ queries = SearcherQueries
    /\ q_in = NoOutcome /\ qi = 0 /\ raw = <<>> /\ all_papers = <<>>
    /\ papers = <<>> /\ screened = <<>> /\ findings = <<>> /\ scr_in = <<>> /\ ext_in = <<>>
    /\ downloaded = <<>> /\ attempted = <<>> /\ disk = {} /\ dl_calls = 0
    /\ results = EmptyDict
    /\ ctx = FullContext /\ srch_in = <<>> /\ trace = <<>> /\ api_results = EmptyDict

\* one iteration of the query loop: papers = search_all(query);
\* all_papers.extend(papers)
SSearch ==
    /\ pc = "s_search"
    /\ qi < Len(queries)
    /\ \E oa \in SArxivOutcomes, os \in SS2Outcomes :
       \E r \in {search_all(oa, os)} :
         /\ raw' = raw \o search_arxiv(oa) \o search_semantic_scholar(os)
         /\ srch_in' = Append(srch_in, [arxiv |-> oa, s2 |-> os,
                                        aborted |-> r.raises, returned |-> r.papers])
         /\ trace' = trace \o <<ArxivSearch(queries[qi + 1], MaxPerSource),
                                 S2Get(queries[qi + 1], MaxPerSource)>>
         /\ IF r.raises
            THEN /\ pc' = "raised"
                 /\ UNCHANGED <<qi, all_papers>>
            ELSE /\ pc' = pc
                 /\ qi' = qi + 1
                 /\ all_papers' = all_papers \o r.papers
    /\ UNCHANGED <<q_in, queries, papers, screened, findings, scr_in, ext_in,
                   downloaded, attempted, disk, dl_calls, results, ctx, api_results>>

\* after the loop: unique_papers, self.papers = unique_papers
SDeduplicate ==
    /\ pc = "s_search"
    /\ qi = Len(queries)
    /\ papers' = Deduplicate(all_papers)
    /\ pc' = "s_done"
    /\ UNCHANGED <<q_in, queries, qi, raw, all_papers, screened, findings, scr_in,
                   ext_in, downloaded, attempted, disk, dl_calls, results, side, trace>>

NextS == SSearch \/ SDeduplicate

SpecS == InitS /\ [][NextS]_vars

(***************************************************************************)
(* AcademicAPIManager.search_papers: the loop over the enabled APIs with   *)
(* its throttling sleeps.  Requests and sleeps are appended to trace.      *)
(***************************************************************************)
MaxManagerCalls == 2

\* the enabled APIs of _get_default_configs, in the order of the dictionary
ApiNames == <<"semantic_scholar", "arxiv", "pubmed", "crossref", "openalex">>

\* "rate_limit" of each API configuration
RateLimit ==
    [semantic_scholar |-> 100, arxiv |-> 3, pubmed |-> 3, crossref |-> 50, openalex |-> 10]

\* the argument of time.sleep(60 / rate_limit), in milliseconds
SleepMs(api) == 60000 \div RateLimit[api]

Request(api) == [ev |-> "request", api |-> api]
Sleep(api, ms) == [ev |-> "sleep", api |-> api, ms |-> ms]

\* what _search_with_api does for one API: raise, or return its papers
ApiOutcomes ==
    { [raises |-> TRUE, papers |-> <<>>],
      [raises |-> FALSE, papers |-> <<[title |-> "Robot Empathy", pdf_url |-> ""]>>] }

RECURSIVE SearchPapersLoop(_, _, _, _)
\* for api_name in apis: try: results[api_name] = _search_with_api(...);
\* time.sleep(60 / rate_limit)  except: results[api_name] = []
SearchPapersLoop(apis, outs, i, acc) ==
    IF i > Len(apis) THEN acc
    ELSE IF outs[i].raises
         THEN SearchPapersLoop(apis, outs, i + 1,
                [results |-> Put(acc.results, apis[i], <<>>),
                 trace |-> Append(acc.trace, Request(apis[i]))])
         ELSE SearchPapersLoop(apis, outs, i + 1,
                [results |-> Put(acc.results, apis[i], outs[i].papers),
                 trace |-> acc.trace \o <<Request(apis[i]),
                                           Sleep(apis[i], SleepMs(apis[i]))>>])

\* search_papers(query) with apis = None; outs[i] is what the i-th API does
search_papers(outs, tr) ==
    SearchPapersLoop(ApiNames, outs, 1, [results |-> EmptyDict, trace |-> tr])

\* number of search_papers calls made so far
ManagerCalls == Cardinality({i \in 1..Len(trace) : trace[i] = Stage("search_papers")})

InitT ==
    /\ pc = "t_idle"
    /\ q_in = NoOutcome /\ ctx = FullContext
    /\ Idle

\* one call self.api_manager.search_papers(query, max_results=20)
TSearchPapers ==
    /\ pc = "t_idle"
    /\ ManagerCalls < MaxManagerCalls
    /\ \E outs \in [1..Len(ApiNames) -> ApiOutcomes] :
       \E r \in {search_papers(outs, Append(trace, Stage("search_papers")))} :
         /\ api_results' = r.results
         /\ trace' = r.trace
    /\ UNCHANGED <<pc, q_in, queries, qi, raw, all_papers, papers, screened, findings,
                   scr_in, ext_in, downloaded, attempted, disk, dl_calls, results,
                   ctx, srch_in>>

NextT == TSearchPapers

SpecT == InitT /\ [][NextT]_vars

(***************************************************************************)
(* The downloader alone: Init draws the Paper list a caller hands to       *)
(* download_pdfs, and the caller may hand the same list in again.          *)
(***************************************************************************)
MaxDlPapers == 3
RunId == "run1"

DownloadPool ==
    { [title |-> "Robot Empathy", abstract |-> "a1", url |-> "http://arxiv.org/pdf/1",
       year |-> "2020", source |-> "arXiv"],
      [title |-> "Robot Trust", abstract |-> "a2", url |-> "http://arxiv.org/pdf/2",
       year |-> None, source |-> "arXiv"],
      [title |-> "Social Robots", abstract |-> "a3", url |-> "",
       year |-> "2020", source |-> "Semantic Scholar"] }

InitDL ==
    /\ pc = "dl_ready"
    /\ papers \in SeqsUpTo(DownloadPool, MaxDlPapers)
    /\ screened = [i \in 1..Len(papers) |-> i]
    /\ q_in = NoOutcome /\ queries = <<>> /\ qi = 0 /\ raw = <<>> /\ all_papers = <<>>
    /\ findings = <<>> /\ scr_in = <<>> /\ ext_in = <<>>
    /\ downloaded = <<>> /\ attempted = <<>> /\ disk = {} /\ dl_calls = 0
    /\ results = EmptyDict
    /\ ctx = FullContext /\ srch_in = <<>> /\ trace = <<>> /\ api_results = EmptyDict

\* one call download_pdfs(papers, run_id)
DLDownload ==
    /\ pc = "dl_ready"
    /\ dl_calls < MaxDownloadCalls
    /\ \E f \in [FetchPositions(papers, screened) -> FetchOutcomes] :
         \E r \in {download_pdfs(papers, screened, FetchResults(papers, screened, f),
                                 RunId, disk)} :
             /\ papers' = r.papers
             /\ downloaded' = r.downloaded
             /\ disk' = r.disk
    /\ attempted' = Prefix(screened, DownloadCap)
    /\ dl_calls' = dl_calls + 1
    /\ UNCHANGED <<pc, q_in, queries, qi, raw, all_papers, screened, findings,
                   scr_in, ext_in, results>>
    /\ UNCHANGED <<side, trace>>

NextDL == DLDownload



SpecDL == InitDL /\ [][NextDL]_vars

(***************************************************************************)
(* The extractor and the organizer alone: Init draws the screened list,    *)
(* the first action the service's answer for each Paper, the second        *)
(* organizes the Findings the first one stored.                            *)
(***************************************************************************)
MaxExtractPapers == 2

ExtractPool ==
    { [title |-> "Robot Empathy", abstract |-> "a1", url |-> "http://arxiv.org/pdf/1",
       year |-> "2020", source |-> "arXiv", relevance_score |-> 4,
       relevance_reason |-> "defines robot empathy"],
      [title |-> "Social Robots", abstract |-> "a3", url |-> "",
       year |-> None, source |-> "Semantic Scholar", relevance_score |-> 3,
       relevance_reason |-> "Relevance assessment"],
      [title |-> "Robot Trust", abstract |-> "", url |-> "http://s2.org/p/4",
       year |-> "2021", source |-> "Semantic Scholar", relevance_score |-> 5,
       relevance_reason |-> "measures trust"] }

Behaviors(value) == Member("behaviors_identified", value)

\* answers of the service to the extraction prompt: no braces, braces without
\* JSON, one object, one object followed by more braces, and objects whose
\* behaviors value is a list, a string, blank, empty, a number or missing
ExtractAnswers ==
    { [raises |-> TRUE, content |-> <<>>],
      [raises |-> FALSE, content |-> <<TXT>>],
      [raises |-> FALSE, content |-> <<TXT, LB, TXT, RB>>],
      [raises |-> FALSE, content |-> <<LB, DefMember, RB, TXT, LB, RB>>],
      [raises |-> FALSE, content |-> <<TXT, LB, DefMember, RB, TXT>>],
      [raises |-> FALSE, content |-> <<LB, BehMember, RB>>],
      [raises |-> FALSE, content |-> <<LB, Behaviors(Str("Eye GAZE and nodding")), RB>>],
      [raises |-> FALSE, content |-> <<LB, Behaviors(Str("adapts its pace")), RB>>],
      [raises |-> FALSE, content |-> <<LB, Behaviors(Str("  ")), RB>>],
      [raises |-> FALSE, content |-> <<LB, Behaviors(List(<<"">>)), RB>>],
      [raises |-> FALSE, content |-> <<LB, Behaviors(List(<<>>)), MethMember, RB>>],
      [raises |-> FALSE, content |-> <<LB, Behaviors(Num(3)), RB>>] }

InitE ==
    /\ pc = "e_ready"
    /\ papers \in {ps \in SeqsUpTo(ExtractPool, MaxExtractPapers) :
                      \A i, j \in 1..Len(ps) : ps[i] = ps[j] => i = j}
    /\ screened = [i \in 1..Len(papers) |-> i]
    /\ q_in = NoOutcome /\ queries = <<>> /\ qi = 0 /\ raw = <<>> /\ all_papers = <<>>
    /\ findings = <<>> /\ scr_in = <<>> /\ ext_in = <<>>
    /\ downloaded = <<>> /\ attempted = <<>> /\ disk = {} /\ dl_calls = 0
    /\ results = EmptyDict
    /\ ctx = FullContext /\ srch_in = <<>> /\ trace = <<>> /\ api_results = EmptyDict

\* findings = self.extract_findings(screened)
EExtract ==
    /\ pc = "e_ready"
    /\ \E outs \in [1..Len(screened) -> ExtractAnswers] :
         /\ findings' = extract_findings(papers, screened, outs)
         /\ ext_in' = outs
    /\ trace' = trace \o ExtractCalls(papers, screened, 1)
    /\ pc' = "e_extracted"
    /\ UNCHANGED <<q_in, queries, qi, raw, all_papers, papers, screened, scr_in,
                   downloaded, attempted, disk, dl_calls, results, side>>

\* organized = self.organize_results()
EOrganize ==
    /\ pc = "e_extracted"
    /\ results' = organize_results(findings)
    /\ pc' = "e_organized"
    /\ UNCHANGED <<q_in, queries, qi, raw, all_papers, papers, screened, findings,
                   scr_in, ext_in, downloaded, attempted, disk, dl_calls, side, trace>>

NextE == EExtract \/ EOrganize

SpecE == InitE /\ [][NextE]_vars

(***************************************************************************)
(* Several runs of search_and_download on one agent instance.  papers,     *)
(* screened, findings and downloaded are self.papers, self.screened_papers, *)
(* self.extracted_findings and self.downloaded; they and the files on disk *)
(* outlive a run.  The other variables hold what the last run did.         *)
(***************************************************************************)
MaxRuns == 2

\* the service fails on the query prompt: the three fallback queries
MQueryOutcomes == {[raises |-> TRUE, lines |-> <<>>]}

MArxivOutcomes ==
    {[raises |-> FALSE, items |-> <<>>],
     [raises |-> FALSE,
      items |-> <<[title |-> "Robot Empathy", summary |-> "a1",
                   pdf_url |-> "http://arxiv.org/pdf/1", published |-> "2020"]>>]}

\* requests.get raises, or answers 200 with one record, complete or with a
\* null title
MS2Outcomes ==
    {[raises |-> TRUE, status |-> HttpOk, items |-> <<>>],
     [raises |-> FALSE, status |-> HttpOk,
      items |-> <<[title |-> "Social Robots", abstract |-> "s1",
                   url |-> "http://s2.org/p/1", year |-> "2022"]>>],
     [raises |-> FALSE, status |-> HttpOk,
      items |-> <<[title |-> None, abstract |-> "s3"]>>]}

MScreenOutcomes ==
    {[raises |-> FALSE, content |-> "SCORE: 4\nREASON: on topic"],
     [raises |-> FALSE, content |-> "SCORE: 2\nREASON: off topic"]}

MExtractOutcomes ==
    {[raises |-> FALSE, content |-> <<LB, DefMember, BehMember, RB>>],
     [raises |-> FALSE, content |-> <<TXT>>]}

MFetchOutcomes == {"ok", "http_error"}

RECURSIVE Repeat(_, _)
\* xs extended n times: every query of the loop gets the same answer
Repeat(xs, n) == IF n = 0 THEN <<>> ELSE xs \o Repeat(xs, n - 1)

\* self.extracted_findings extended instead of replaced
StoreFindingsExtend(old, new) == old \o new

\* self.extracted_findings = findings
StoreFindings(old, new) == new

\* the calls of search_and_download made so far
Runs == Cardinality({i \in 1..Len(trace) : trace[i] = Stage("search_and_download")})

InitM ==
    /\ pc = "m_ready"
    /\ q_in = NoOutcome
    /\ ctx = FullContext
    /\ Idle

\* one call results = agent.search_and_download(run_id, interview_summary)
MRun ==
    /\ pc \in {"m_ready", "m_done", "m_raised"}
    /\ Runs < MaxRuns
    /\ trace' = Append(trace, Stage("search_and_download"))
    /\ \E oq \in MQueryOutcomes, oa \in MArxivOutcomes, os \in MS2Outcomes :
       \E qs \in {generate_queries(oq)} :
       \E r \in {search_all(oa, os)} :
         /\ q_in' = oq
         /\ queries' = qs
         /\ IF r.raises
            THEN /\ pc' = "m_raised"
                 /\ qi' = 0
                 /\ raw' = search_arxiv(oa) \o search_semantic_scholar(os)
                 /\ all_papers' = <<>>
                 /\ scr_in' = <<>> /\ ext_in' = <<>> /\ attempted' = <<>>
                 /\ UNCHANGED <<papers, screened, findings, downloaded, disk,
                                dl_calls, results>>
            ELSE /\ pc' = "m_done"
                 /\ qi' = Len(qs)
                 /\ raw' = Repeat(search_arxiv(oa) \o search_semantic_scholar(os), Len(qs))
                 /\ all_papers' = Repeat(r.papers, Len(qs))
                 /\ \E so \in [1..Len(Deduplicate(all_papers')) -> MScreenOutcomes] :
                    \E s \in {screen_relevance(Deduplicate(all_papers'), so)} :
                    \E eo \in [1..Len(s.screened) -> MExtractOutcomes] :
                    \E f \in [FetchPositions(s.papers, s.screened) -> MFetchOutcomes] :
                    \E d \in {download_pdfs(s.papers, s.screened,
                                            FetchResults(s.papers, s.screened, f),
                                            RunId, disk)} :
                      /\ scr_in' = so
                      /\ ext_in' = eo
                      /\ papers' = d.papers
                      /\ screened' = s.screened
                      /\ findings' = StoreFindings(findings,
                                        extract_findings(s.papers, s.screened, eo))
                      /\ attempted' = Prefix(s.screened, DownloadCap)
                      /\ downloaded' = d.downloaded
                      /\ disk' = d.disk
                      /\ dl_calls' = dl_calls + 1
                      /\ results' = CompileResults(qs, papers', s.screened,
                                       extract_findings(s.papers, s.screened, eo),
                                       d.downloaded, organize_results(findings'))
    /\ UNCHANGED side

NextM == MRun

SpecM == InitM /\ [][NextM]_vars

(***************************************************************************)
(* The pipeline: search_and_download(run_id, interview_summary).           *)
(***************************************************************************)
\* what the arXiv client yields
ArxivItems ==
    { [title |-> "Robot Empathy", summary |-> "a1", pdf_url |-> "http://arxiv.org/pdf/1",
       published |-> "2020"],
      [title |-> "Robot Trust", summary |-> "a2", pdf_url |-> "http://arxiv.org/pdf/2",
       published |-> None] }

\* records of a Semantic Scholar response
S2Items ==
    { [title |-> "robot empathy", abstract |-> "", url |-> "http://s2.org/p/1",
       year |-> "2021"],
      [title |-> "Social Robots", abstract |-> None,
       openAccessPdf |-> [url |-> "http://s2.org/3.pdf"], year |-> "2022"],
      [title |-> None, abstract |-> "s3"],
      [title |-> "Robot Trust", abstract |-> "s4", openAccessPdf |-> JsonNull],
      [title |-> "No Access", abstract |-> "", url |-> ""] }

ArxivOutcomes(n) ==
    {[raises |-> TRUE, items |-> <<>>]}
    \cup {[raises |-> FALSE, items |-> xs] : xs \in SeqsUpTo(ArxivItems, n)}

S2Outcomes(n) ==
    {[raises |-> TRUE, status |-> HttpOk, items |-> <<>>],
     [raises |-> FALSE, status |-> 429, items |-> <<>>]}
    \cup {[raises |-> FALSE, status |-> HttpOk, items |-> xs] : xs \in SeqsUpTo(S2Items, n)}

\* what the PDF fetches of a pipeline run do
PipelineFetchOutcomes == {"ok", "http_error"}

\* the answers of the service to the query-generation prompt
PipelineQueryOutcomes ==
    { [raises |-> TRUE, lines |-> <<>>],
      [raises |-> FALSE, lines |-> <<"1. robot empathy measurement scale", "too short">>] }

Init ==
    /\ pc = "start"
    /\ q_in = NoOutcome
    /\ ctx = FullContext
    /\ Idle

\* Step 1: queries = self.generate_queries(interview_summary)
GenerateQueries ==
    /\ pc = "start"
    /\ \E o \in PipelineQueryOutcomes :
         /\ q_in' = o
         /\ queries' = generate_queries(o)
    /\ pc' = "search"
    /\ UNCHANGED <<qi, raw, all_papers, papers, screened, findings, scr_in,
                   ext_in, downloaded, attempted, disk, dl_calls, results>>
    /\ trace' = trace \o <<Stage("generate_queries"), LlmInvoke(QueryPrompt(ctx))>>
    /\ UNCHANGED side

\* Step 2, one iteration of the query loop of search_and_screen:
\* papers = self.api_client.search_all(query); all_papers.extend(papers)
SearchQuery ==
    /\ pc = "search"
    /\ qi < Len(queries)
    /\ \E oa \in ArxivOutcomes(MaxRaw - Len(raw)) :
       \E os \in S2Outcomes(MaxRaw - Len(raw) - Len(oa.items)) :
         LET r == search_all(oa, os)
         IN  /\ raw' = raw \o search_arxiv(oa) \o search_semantic_scholar(os)
             /\ IF r.raises
                THEN /\ pc' = "raised"
                     /\ UNCHANGED <<qi, all_papers>>
                ELSE /\ pc' = pc
                     /\ qi' = qi + 1
                     /\ all_papers' = all_papers \o r.papers
    /\ UNCHANGED <<q_in, queries, papers, screened, findings, scr_in, ext_in,
                   downloaded, attempted, disk, dl_calls, results>>
    /\ trace' = Append(trace, Stage("search_all"))
    /\ UNCHANGED side

\* Step 2, after the query loop: deduplication, self.papers = unique_papers
DeduplicatePapers ==
    /\ pc = "search"
    /\ qi = Len(queries)
    /\ papers' = Deduplicate(all_papers)
    /\ pc' = "screen"
    /\ UNCHANGED <<q_in, queries, qi, raw, all_papers, screened, findings, scr_in,
                   ext_in, downloaded, attempted, disk, dl_calls, results>>
    /\ trace' = Append(trace, Stage("deduplicate"))
    /\ UNCHANGED side

\* Step 2, screening: self.screened_papers = self._screen_relevance(unique_papers)
ScreenRelevance ==
    /\ pc = "screen"
    /\ \E outs \in [1..Len(papers) -> ScreenOutcomes] :
         \E r \in {screen_relevance(papers, outs)} :
             /\ papers' = r.papers
             /\ screened' = r.screened
             /\ scr_in' = outs
    /\ pc' = "extract"
    /\ UNCHANGED <<q_in, queries, qi, raw, all_papers, findings, ext_in,
                   downloaded, attempted, disk, dl_calls, results>>
    /\ trace' = Append(trace, Stage("_screen_relevance")) \o ScreenCalls(papers, 1)
    /\ UNCHANGED side

\* Step 3: findings = self.extract_findings(screened)
ExtractFindings ==
    /\ pc = "extract"
    /\ \E outs \in [1..Len(screened) -> ExtractOutcomes] :
         /\ findings' = extract_findings(papers, screened, outs)
         /\ ext_in' = [i \in 1..Min(Len(screened), ExtractCap) |-> ExtractKind(outs[i])]
    /\ pc' = "download"
    /\ UNCHANGED <<q_in, queries, qi, raw, all_papers, papers, screened, scr_in,
                   downloaded, attempted, disk, dl_calls, results>>
    /\ trace' = Append(trace, Stage("extract_findings"))
                 \o ExtractCalls(papers, screened, 1)
    /\ UNCHANGED side

\* Step 4: downloaded = self.download_pdfs(screened, run_id)
DownloadPdfs ==
    /\ pc = "download"
    /\ \E f \in [FetchPositions(papers, screened) -> PipelineFetchOutcomes] :
         \E r \in {download_pdfs(papers, screened, FetchResults(papers, screened, f),
                                 RunId, disk)} :
             /\ papers' = r.papers
             /\ downloaded' = r.downloaded
             /\ disk' = r.disk
    /\ attempted' = Prefix(screened, DownloadCap)
    /\ dl_calls' = dl_calls + 1
    /\ pc' = "organize"
    /\ UNCHANGED <<q_in, queries, qi, raw, all_papers, screened, findings,
                   scr_in, ext_in, results>>
    /\ trace' = Append(trace, Stage("download_pdfs"))
    /\ UNCHANGED side

\* Step 5 and the return: organized = self.organize_results(); return results
OrganizeAndReturn ==
    /\ pc = "organize"
    /\ results' = CompileResults(queries, papers, screened, findings, downloaded,
                                 organize_results(findings))
    /\ pc' = "done"
    /\ UNCHANGED <<q_in, queries, qi, raw, all_papers, papers, screened, findings,
                   scr_in, ext_in, downloaded, attempted, disk, dl_calls>>
    /\ trace' = Append(trace, Stage("organize_results"))
    /\ UNCHANGED side

Next ==
    \/ GenerateQueries
    \/ SearchQuery
    \/ DeduplicatePapers
    \/ ScreenRelevance
    \/ ExtractFindings
    \/ DownloadPdfs
    \/ OrganizeAndReturn

Spec == Init /\ [][Next]_vars


(***************************************************************************)
(* Properties.                                                             *)
(***************************************************************************)
Range(f) == {f[i] : i \in DOMAIN f}

\* C1 as stated: whatever the service does (text, empty text, a raise), the
\* query list returned has between 5 and 6 entries.
C1_QueryCountAlways ==
    pc = "q_done" => (Len(queries) >= 5 /\ Len(queries) <= 6)

\* C1 amended: when the service call returns text (empty text included) the
\* query list has between 5 and 6 entries; when the call raises, the list is
\* the 3 canned queries.
C1_QueryCount ==
    pc = "q_done" =>
        IF q_in.raises THEN Len(queries) = 3
        ELSE Len(queries) >= 5 /\ Len(queries) <= 6

\* a response with more than 6 usable lines has been cut to 6 queries
C1_Witness ==
    /\ pc = "q_done"
    /\ ~q_in.raises
    /\ Len(ParseQueries(q_in.lines)) > 6
    /\ Len(queries) = 6

SameTitleIgnoringCase(p, q) == LowerStr(p.title) = LowerStr(q.title)

\* C2: the deduplicator is idempotent, its output is never longer than its
\* input, no two retained Papers have titles equal ignoring case, and a list
\* of Papers that all share one title reduces to exactly 1 Paper.
C2_DedupIdempotentUnique ==
    /\ pc \in {"d_once", "d_twice"} =>
         /\ Len(papers) <= Len(all_papers)
         /\ \A i, j \in 1..Len(papers) :
              i # j => ~SameTitleIgnoringCase(papers[i], papers[j])
    /\ pc = "d_twice" => papers = all_papers
    /\ (/\ pc = "d_once"
        /\ all_papers # <<>>
        /\ \A i \in 1..Len(all_papers) : SameTitleIgnoringCase(all_papers[i], all_papers[1]))
       => Len(papers) = 1

\* Papers of three providers that share one title were reduced to one Paper,
\* and deduplicating again changed nothing
C2_Witness ==
    /\ pc = "d_twice"
    /\ Len(raw) >= 3
    /\ \A i \in 1..Len(raw) : SameTitleIgnoringCase(raw[i], raw[1])
    /\ Cardinality({raw[i].source : i \in 1..Len(raw)}) = 3
    /\ Len(papers) = 1
    /\ papers = all_papers

AfterScreening == pc \in {"extract", "download", "organize", "done"}

\* C3: every Paper the Relevance Screener returns carries a relevance_score
\* of at least 3, and no Paper whose parsed score is below 3 is returned (the
\* second part is stated where _screen_relevance returns; no later stage
\* changes the screened list).
C3_ScreenedScoreAtLeast3 ==
    /\ AfterScreening =>
          \A k \in 1..Len(screened) :
             /\ "relevance_score" \in DOMAIN papers[screened[k]]
             /\ papers[screened[k]].relevance_score >= 3
    /\ pc = "extract" =>
          \A i \in 1..Len(papers) :
             (~scr_in[i].raises /\ ParseScore(scr_in[i].content) < 3)
                => i \notin Range(screened)

\* one Paper was accepted and another, scored 2, was dropped
C3_Witness ==
    /\ pc = "extract"
    /\ Len(screened) = 1
    /\ \E i \in 1..Len(papers) :
         /\ ~scr_in[i].raises
         /\ papers[i].abstract # None
         /\ ParseScore(scr_in[i].content) = 2
         /\ i \notin Range(screened)

AfterExtraction == pc \in {"download", "organize", "done"}

\* positions of the screened list whose response parsed as a JSON object
OkPositions == {i \in 1..Len(ext_in) : ext_in[i] = "ok"}

\* the position in the screened list of the Paper that produced Finding k
SourceOf(k) ==
    CHOOSE i \in OkPositions : Cardinality({j \in OkPositions : j <= i}) = k

\* C4: every Finding returned by the Findings Extractor has paper_title and
\* paper_year, set to the title and year of the Paper whose abstract produced
\* it, whatever keys the service's JSON contains.
C4_FindingBackReference ==
    AfterExtraction =>
        /\ Len(findings) = Cardinality(OkPositions)
        /\ \A k \in 1..Len(findings) :
             /\ {"paper_title", "paper_year"} \subseteq DOMAIN findings[k]
             /\ findings[k].paper_title = papers[screened[SourceOf(k)]].title
             /\ findings[k].paper_year = papers[screened[SourceOf(k)]].year

\* a Finding was built from a JSON object that had a paper_title key of its own
C4_Witness ==
    /\ pc = "download"
    /\ \E k \in 1..Len(findings) :
         /\ "measurement_methods" \in DOMAIN findings[k]
         /\ findings[k].paper_title = papers[screened[SourceOf(k)]].title

\* C5: after any sequence of download operations, a Paper marked
\* downloaded=true has a non-empty local_pdf_path naming a file on disk, and a
\* Paper marked downloaded=false has no local_pdf_path.
C5_DownloadedIffPath ==
    \A i \in 1..Len(papers) :
        "downloaded" \in DOMAIN papers[i] =>
            IF papers[i].downloaded
            THEN /\ "local_pdf_path" \in DOMAIN papers[i]
                 /\ papers[i].local_pdf_path # ""
                 /\ papers[i].local_pdf_path \in disk
            ELSE "local_pdf_path" \notin DOMAIN papers[i]

OrganizedEmpty(org) ==
    /\ org.empathy_definitions = <<>>
    /\ org.empathic_behaviors.verbal = <<>>
    /\ org.empathic_behaviors.nonverbal = <<>>
    /\ org.empathic_behaviors.adaptive = <<>>
    /\ org.measurement_approaches = <<>>

\* C6: when every provider returns zero Papers for every query, no exception
\* is raised and the result has total_papers_found = 0, screened_papers = 0,
\* pdfs_downloaded = 0 and empty definitions, behavior buckets and measurement
\* list.
C6_NoHitsEmptyResult ==
    raw = <<>> =>
        /\ pc # "raised"
        /\ pc = "done" =>
             /\ results.total_papers_found = 0
             /\ results.screened_papers = 0
             /\ results.pdfs_downloaded = 0
             /\ OrganizedEmpty(results.organized_findings)

\* the pipeline returned after every query had found nothing
C6_Witness ==
    /\ pc = "done"
    /\ raw = <<>>
    /\ qi = Len(queries)
    /\ results.total_papers_found = 0

\* C7: the pipeline always returns a result; no exception reaches the caller,
\* whatever the external calls do or return.
C7_NoExceptionReachesCaller == pc # "raised"

\* C8: a screened Paper whose extraction response yields no JSON object gives
\* zero Findings, the remaining Papers are still extracted, the pipeline
\* completes (no exception once Papers were screened), and the Paper is
\* counted in screened_papers.
C8_UnparsableExtractionSkipped ==
    /\ AfterExtraction =>
         /\ Len(ext_in) = Len(screened)
         /\ Len(findings) = Cardinality(OkPositions)
         /\ \A i \in 1..Len(ext_in) :
              ext_in[i] \in {"no_match", "bad_json"} =>
                 \A k \in 1..Len(findings) :
                    findings[k].paper_title # papers[screened[i]].title
    /\ pc = "raised" => ext_in = <<>>
    /\ pc = "done" => results.screened_papers = Len(screened)

\* the pipeline returned after the first screened Paper's response had braces
\* but no JSON object; the second Paper still gave a Finding and both count
C8_Witness ==
    /\ pc = "done"
    /\ Len(ext_in) = 2
    /\ ext_in[1] = "bad_json"
    /\ ext_in[2] = "ok"
    /\ Len(findings) = 1
    /\ results.screened_papers = 2

\* the Papers of the last download_pdfs call whose download succeeded
RECURSIVE Succeeded(_)
Succeeded(refs) ==
    IF refs = <<>> THEN <<>>
    ELSE (IF papers[Head(refs)].downloaded THEN <<Head(refs)>> ELSE <<>>)
         \o Succeeded(Tail(refs))

\* C9 as stated: every Paper the downloader attempts is in the list it
\* returns, a failed one with downloaded=false and its assigned category.
C9_EveryAttemptReturned ==
    dl_calls >= 1 =>
        \A k \in 1..Len(attempted) :
            /\ attempted[k] \in Range(downloaded)
            /\ "category" \in DOMAIN papers[attempted[k]]

\* C9 amended: download_pdfs returns exactly the attempted Papers whose
\* download succeeded, in order, each with downloaded=true and its category; a
\* Paper with no URL or whose fetch fails is marked downloaded=false on the
\* Paper itself and is not in the returned list.
C9_OnlySuccessesReturned ==
    dl_calls >= 1 =>
        /\ \A k \in 1..Len(attempted) : "downloaded" \in DOMAIN papers[attempted[k]]
        /\ downloaded = Succeeded(attempted)
        /\ \A k \in 1..Len(downloaded) :
             /\ papers[downloaded[k]].downloaded
             /\ papers[downloaded[k]].category \in Range(Categories)
        /\ \A k \in 1..Len(attempted) :
             ~Truthy(papers[attempted[k]].url) =>
                /\ ~papers[attempted[k]].downloaded
                /\ attempted[k] \notin Range(downloaded)

\* one call in which one fetch succeeded and another failed: only the first
\* Paper is in the returned list
C9_Witness ==
    /\ dl_calls = 1
    /\ Len(attempted) >= 2
    /\ Len(downloaded) = 1
    /\ \E k \in 1..Len(attempted) :
         /\ Truthy(papers[attempted[k]].url)
         /\ ~papers[attempted[k]].downloaded
         /\ attempted[k] \notin Range(downloaded)

\* positions of raw holding the first Paper of their title key
FirstPositions ==
    {j \in 1..Len(raw) : \A k \in 1..(j - 1) : ~SameTitleIgnoringCase(raw[k], raw[j])}

NthFirst(i) ==
    CHOOSE j \in FirstPositions : Cardinality({k \in FirstPositions : k <= j}) = i

\* C10: deduplication is first-seen-wins: for every title key the Paper kept
\* is the first of the accumulated order (queries in order, providers in order
\* within a query), later ones are discarded whatever their provider or
\* metadata, and kept Papers keep their relative order.  Stated of the list
\* the deduplication leaves in self.papers, before screening touches it.
C10_FirstSeenWins ==
    pc = "screen" =>
        /\ Len(papers) = Cardinality(FirstPositions)
        /\ \A i \in 1..Len(papers) : papers[i] = raw[NthFirst(i)]

\* two providers returned Papers with one title key and other metadata; the
\* first was kept
C10_Witness ==
    /\ pc = "screen"
    /\ Len(raw) = 2
    /\ SameTitleIgnoringCase(raw[1], raw[2])
    /\ raw[1].source # raw[2].source
    /\ raw[1].url # raw[2].url
    /\ papers = <<raw[1]>>

\* positions of a list holding Papers tagged with the provider src
FromSource(ps, src) == {i \in 1..Len(ps) : ps[i].source = src}

\* every Paper of ps has its title key in the list got
AllCollected(ps, got) ==
    \A i \in 1..Len(ps) : \E j \in 1..Len(got) : SameTitleIgnoringCase(ps[i], got[j])

\* C11: when one provider adapter raises an exception during a search, the
\* search is not aborted: that adapter contributes zero results for that
\* call, the results of the other adapter for the same query are collected,
\* and the later queries are still searched.
C11_AdapterFailureIsolated ==
    \A i \in 1..Len(srch_in) :
        /\ (srch_in[i].arxiv.raises \/ S2Raised(srch_in[i].s2)) => ~srch_in[i].aborted
        /\ srch_in[i].arxiv.raises => FromSource(srch_in[i].returned, "arXiv") = {}
        /\ S2Raised(srch_in[i].s2) =>
              FromSource(srch_in[i].returned, "Semantic Scholar") = {}
        /\ (srch_in[i].arxiv.raises /\ ~S2Raised(srch_in[i].s2)) =>
              AllCollected(search_semantic_scholar(srch_in[i].s2), srch_in[i].returned)
        /\ (S2Raised(srch_in[i].s2) /\ ~srch_in[i].arxiv.raises) =>
              AllCollected(search_arxiv(srch_in[i].arxiv), srch_in[i].returned)

\* positions of the trace holding a request to the API api
RequestsTo(api) == {i \in 1..Len(trace) : trace[i] = Request(api)}

\* C12: between any two successive calls to the same provider adapter the
\* caller sleeps 60/rate_limit seconds for that adapter, also when the
\* earlier call failed.
C12_SleepBetweenCalls ==
    \A n \in 1..Len(ApiNames) :
      \A i, j \in RequestsTo(ApiNames[n]) :
        i < j => \E k \in (i + 1)..(j - 1) :
                    trace[k] = Sleep(ApiNames[n], 60000 \div RateLimit[ApiNames[n]])

\* the fields of the interview summary and the prompt argument each fills
PromptArg ==
    [assessment_context |-> "context", robot_platform |-> "platform",
     interaction_modalities |-> "interaction_modalities"]

\* C13 as stated: when the interview summary lacks a field the generator
\* reads, a fatal error is propagated and the generator does not return.
C13_MissingFieldIsFatal ==
    (\E k \in ContextFields : k \notin DOMAIN ctx) => pc # "q_done"

\* C13 amended: a field the interview summary lacks raises no error; the
\* generator puts 'N/A' in the prompt in its place (also for an empty goal
\* list), passes the present fields unchanged, makes its one service call and
\* returns its queries.
C13_MissingFieldDefaults ==
    /\ pc # "raised"
    /\ pc = "q_done" =>
         /\ Len(trace) = 2
         /\ trace[2].ev = "llm.invoke"
         /\ \A k \in DOMAIN PromptArg :
              trace[2].prompt[PromptArg[k]] = IF k \in DOMAIN ctx THEN ctx[k] ELSE "N/A"
         /\ trace[2].prompt.goals =
              IF "assessment_goals" \in DOMAIN ctx /\ ctx.assessment_goals # <<>>
              THEN "measure empathy, compare robots" ELSE "N/A"
         /\ Len(queries) \in {3, 5, 6}

\* the generator returned for a summary with no robot_platform
C13_Witness ==
    /\ pc = "q_done"
    /\ "robot_platform" \notin DOMAIN ctx
    /\ "assessment_context" \in DOMAIN ctx
    /\ trace[2].prompt.platform = "N/A"
    /\ ~q_in.raises
    /\ Len(queries) = 5

\* C14: no Paper with an empty title enters the pipeline: every Paper an
\* adapter returned, and so every Paper of the accumulated, deduplicated and
\* screened lists, has a non-empty title.
C14_NoEmptyTitle ==
    /\ \A i \in 1..Len(raw) : raw[i].title # ""
    /\ \A i \in 1..Len(all_papers) : all_papers[i].title # ""
    /\ \A i \in 1..Len(papers) : papers[i].title # ""
    /\ \A k \in 1..Len(screened) : papers[screened[k]].title # ""

\* C15: the relevance_score stored on any Paper is an integer between 1 and 5
\* inclusive, whatever the service answers.
C15_ScoreInRange ==
    \A i \in 1..Len(papers) :
        "relevance_score" \in DOMAIN papers[i] => papers[i].relevance_score \in 1..5

\* C16: the category directories of a run are append-only: over every
\* sequence of download operations of one run, a PDF written by a call never
\* has the path of a file written there before.
C16_NoOverwrite ==
    [][dl_calls' # dl_calls =>
         \A k \in 1..Len(downloaded') :
            papers'[downloaded'[k]].local_pdf_path \notin disk]_vars

\* the names of the stages entered so far, in order
RECURSIVE StageNames(_)
StageNames(tr) ==
    IF tr = <<>> THEN <<>>
    ELSE (IF Head(tr).ev = "stage" THEN <<Head(tr).name>> ELSE <<>>) \o StageNames(Tail(tr))

\* the stage calls of one run over n queries
StageOrder(n) ==
    <<"generate_queries">> \o [i \in 1..n |-> "search_all"]
    \o <<"deduplicate", "_screen_relevance", "extract_findings", "download_pdfs",
         "organize_results">>

IsPrefix(a, b) == Len(a) <= Len(b) /\ a = SubSeq(b, 1, Len(a))

C18_SidecarForEveryAttempt ==
    dl_calls >= 1 =>
        \A k \in 1..Len(attempted) : \E f \in disk : Contains(f, "metadata")

\* C19: query parsing keeps a response line, once its enumeration marker and
\* quotes are stripped, exactly when it has at least 10 characters and does
\* not start with "Query", "Format" or "Generate"; a line of exactly 10
\* characters is kept.
C19_KeepsLinesOfTenOrMore ==
    (pc = "q_done" /\ ~q_in.raises) =>
        \A i \in 1..Len(q_in.lines) :
            (/\ Len(CleanLine(q_in.lines[i])) >= 10
             /\ \A w \in {"Query", "Format", "Generate"} :
                   ~StartsWith(CleanLine(q_in.lines[i]), w))
            <=> CleanLine(q_in.lines[i]) \in Range(queries)

\* number of service calls in the trace
LlmCalls == Cardinality({i \in 1..Len(trace) : trace[i].ev = "llm.invoke"})

\* C20: when the service call of query generation raises, the generator
\* returns exactly three canned queries, for definitions, behaviors and
\* measurement in that order, and makes no further service call.
C20_FallbackOnFailure ==
    (pc = "q_done" /\ q_in.raises) =>
        /\ queries = <<"robot empathy", "empathic robot", "empathy measurement">>
        /\ LlmCalls = 1

\* the generator returned after the service call had raised
C20_Witness ==
    /\ pc = "q_done"
    /\ q_in.raises
    /\ Len(queries) = 3
    /\ LlmCalls = 1

\* the Papers of the screened prefix whose scoring did not raise: the service
\* answered scr_in[i] for them
Scored == {i \in 1..Min(Len(papers), ScreenCap) : ~ScreenRaises(papers[i], scr_in[i])}

\* C21: when the screening answer for a Paper holds no labeled integer score,
\* the Paper is accepted with relevance_score 3; when the answer of an accepted
\* Paper holds no labeled reason, its relevance_reason is the generic string.
C21_DefaultScoreAndReason ==
    pc = "r_done" =>
        \A i \in Scored :
            /\ ScoreHits(scr_in[i].content) = {} =>
                 /\ i \in Range(screened)
                 /\ papers[i].relevance_score = 3
            /\ (~Contains(scr_in[i].content, "REASON:") /\ i \in Range(screened)) =>
                 papers[i].relevance_reason = "Relevance assessment"

\* a Paper answered without score and without reason was accepted with both
\* defaults
C21_Witness ==
    /\ pc = "r_done"
    /\ \E i \in Scored :
         /\ ScoreHits(scr_in[i].content) = {}
         /\ ~Contains(scr_in[i].content, "REASON:")
         /\ i \in Range(screened)
         /\ papers[i].relevance_score = 3
         /\ papers[i].relevance_reason = "Relevance assessment"

\* C22: a Paper whose scoring raises is skipped, it is not in the screened list
\* and gets no score, and every later Paper of the capped prefix is still
\* scored: it is accepted exactly when its own answer's score passes.
C22_RaisingPaperSkipped ==
    pc = "r_done" =>
        \A i \in 1..Min(Len(papers), ScreenCap) :
            ScreenRaises(papers[i], scr_in[i]) =>
                /\ i \notin Range(screened)
                /\ "relevance_score" \notin DOMAIN papers[i]
                /\ \A j \in Scored :
                      j > i => (j \in Range(screened)
                                  <=> ParseScore(scr_in[j].content) >= 3)

\* the service failed on the first Paper and the second one was accepted
C22_Witness ==
    /\ pc = "r_done"
    /\ Len(papers) >= 2
    /\ papers[1].abstract # None
    /\ scr_in[1].raises
    /\ 1 \notin Range(screened)
    /\ 2 \in Scored
    /\ 2 \in Range(screened)

RECURSIVE ClosingBrace(_, _, _)
\* the position of the brace that closes an object, scanning from position i
\* with depth braces open; 0 when the object is never closed
ClosingBrace(content, i, depth) ==
    IF i > Len(content) THEN 0
    ELSE IF content[i].tok = "{" THEN ClosingBrace(content, i + 1, depth + 1)
    ELSE IF content[i].tok = "}"
         THEN (IF depth = 1 THEN i ELSE ClosingBrace(content, i + 1, depth - 1))
    ELSE ClosingBrace(content, i + 1, depth)

\* the first balanced {...} substring of a response, <<>> when there is none
FirstBalanced(content) ==
    LET opens == {i \in 1..Len(content) : content[i].tok = "{"}
        first == CHOOSE i \in opens : \A j \in opens : i <= j
    IN  IF opens = {} THEN <<>>
        ELSE IF ClosingBrace(content, first + 1, 1) = 0 THEN <<>>
        ELSE SubSeq(content, first, ClosingBrace(content, first + 1, 1))

\* the answer for the k-th screened Paper has a first balanced substring that
\* is a JSON object
FirstBalancedParses(k) ==
    /\ ~ext_in[k].raises
    /\ FirstBalanced(ext_in[k].content) # <<>>
    /\ JsonValid(FirstBalanced(ext_in[k].content))

\* C23: the extractor parses the first balanced {...} substring of the
\* response: a Paper whose response has one that is valid JSON yields a Finding
\* built from that object, even when more text with braces follows, and a Paper
\* yields no Finding only when no such substring parses.
C23_FirstBalancedObjectParsed ==
    pc = "e_extracted" =>
        \A k \in 1..Len(ext_in) :
            FirstBalancedParses(k) <=>
                \E m \in 1..Len(findings) :
                    /\ findings[m].paper_title = papers[screened[k]].title
                    /\ \A key \in DOMAIN JsonLoads(FirstBalanced(ext_in[k].content))
                                    \ {"paper_title", "paper_year"} :
                          findings[m][key] = JsonLoads(FirstBalanced(ext_in[k].content))[key]

\* C24 as stated: the Paper at zero-based position p of the processed prefix
\* is assigned categories[p mod n], so the first Paper gets "definitions".
C24_RoundRobinFromZero ==
    \A i \in 1..Len(attempted) :
        (dl_calls > 0 /\ papers[attempted[i]].downloaded) =>
            papers[attempted[i]].category =
                <<"definitions", "behaviors", "measurement">>[((i - 1) % 3) + 1]

\* C24: the Paper at one-based position i of the processed prefix is filed
\* under categories[i mod n]: the first Paper under "behaviors", the second
\* under "measurement", the third under "definitions", and so on cyclically,
\* whatever the Paper's content; the category is stored on the Papers whose
\* download succeeded, and their file lies in that category's directory.
C24_RoundRobinFromOne ==
    \A i \in 1..Len(attempted) :
        (dl_calls > 0 /\ papers[attempted[i]].downloaded) =>
            /\ papers[attempted[i]].category =
                 <<"behaviors", "measurement", "definitions">>[((i - 1) % 3) + 1]
            /\ Contains(papers[attempted[i]].local_pdf_path,
                        "/pdfs/" \o papers[attempted[i]].category \o "/paper_")

\* the same Paper was downloaded at the first and at the second position and
\* got two different categories
C24_Witness ==
    /\ dl_calls > 0
    /\ Len(attempted) >= 2
    /\ papers[attempted[1]].title = papers[attempted[2]].title
    /\ papers[attempted[1]].downloaded /\ papers[attempted[2]].downloaded
    /\ papers[attempted[1]].category = "behaviors"
    /\ papers[attempted[2]].category = "measurement"

\* the behaviors value of a Finding ("" when the key is missing)
BehaviorsOf(f) == Get(f, "behaviors_identified", Str(""))

\* the Finding has a non-empty behaviors value
HasBehaviors(f) == JsonTruthy(BehaviorsOf(f))

\* the Finding's behaviors value is a string or a list whose string is not
\* blank
HasBehaviorText(f) ==
    /\ BehaviorsOf(f).t \in {"str", "list"}
    /\ StripWs(BehaviorText(BehaviorsOf(f))) # ""

\* the bucket the claim names for a behavior string
BucketOfClaim(text) ==
    IF \E kw \in {"speech", "verbal", "language", "words"} : Contains(LowerStr(text), kw)
    THEN "verbal"
    ELSE IF \E kw \in {"gesture", "gaze", "expression", "face"} : Contains(LowerStr(text), kw)
    THEN "nonverbal"
    ELSE "adaptive"

RECURSIVE BucketTexts(_, _, _)
\* the behavior strings, in order, of the Findings of fs that the claim puts
\* into bucket b; blank tells whether blank and non-text values count
BucketTexts(fs, b, blank) ==
    IF fs = <<>> THEN <<>>
    ELSE (IF /\ (IF blank THEN HasBehaviors(Head(fs)) ELSE HasBehaviorText(Head(fs)))
             /\ BehaviorsOf(Head(fs)).t \in {"str", "list"}
             /\ BucketOfClaim(BehaviorText(BehaviorsOf(Head(fs)))) = b
          THEN <<BehaviorText(BehaviorsOf(Head(fs)))>> ELSE <<>>)
         \o BucketTexts(Tail(fs), b, blank)

RECURSIVE CountWhere(_, _)
\* the number of Findings of fs with a non-empty (blank) or a non-blank text
\* behaviors value
CountWhere(fs, blank) ==
    IF fs = <<>> THEN 0
    ELSE (IF (IF blank THEN HasBehaviors(Head(fs)) ELSE HasBehaviorText(Head(fs)))
          THEN 1 ELSE 0) + CountWhere(Tail(fs), blank)

BucketNames == {"verbal", "nonverbal", "adaptive"}

\* C25 as stated: every Finding with a non-empty behaviors value adds its full
\* behavior string to exactly one bucket, chosen by the keyword test in the
\* order verbal, nonverbal, adaptive; a Finding without behaviors adds nothing.
C25_NonEmptyBehaviorsBucketed ==
    pc = "e_organized" =>
        /\ \A b \in BucketNames :
              results.empathic_behaviors[b] = BucketTexts(findings, b, TRUE)
        /\ Len(results.empathic_behaviors.verbal)
             + Len(results.empathic_behaviors.nonverbal)
             + Len(results.empathic_behaviors.adaptive) = CountWhere(findings, TRUE)

\* C25: every Finding whose behaviors value is a string or a list (joined with
\* ", ") that is not blank adds the full behavior string to exactly one
\* bucket: verbal if the lower-cased string contains a verbal keyword,
\* otherwise nonverbal if it contains a nonverbal keyword, otherwise adaptive;
\* a Finding whose behaviors value is missing, empty, blank or not text adds
\* nothing to any bucket.
C25_TextBehaviorsBucketed ==
    pc = "e_organized" =>
        /\ \A b \in BucketNames :
              results.empathic_behaviors[b] = BucketTexts(findings, b, FALSE)
        /\ Len(results.empathic_behaviors.verbal)
             + Len(results.empathic_behaviors.nonverbal)
             + Len(results.empathic_behaviors.adaptive) = CountWhere(findings, FALSE)

\* a joined list holding a keyword of both kinds went to the verbal bucket, and
\* a Finding with a blank behaviors string went to none
C25_Witness ==
    /\ pc = "e_organized"
    /\ Len(findings) = 2
    /\ BehaviorsOf(findings[1]) = List(<<"gaze", "speech">>)
    /\ BehaviorsOf(findings[2]) = Str("  ")
    /\ results.empathic_behaviors.verbal = <<"gaze, speech">>
    /\ results.empathic_behaviors.nonverbal = <<>>
    /\ results.empathic_behaviors.adaptive = <<>>

RECURSIVE KeepFirsts(_, _)
\* one first-seen-wins pass over ps from position i: the Papers whose title key
\* no earlier Paper of ps has
KeepFirsts(ps, i) ==
    IF i > Len(ps) THEN <<>>
    ELSE (IF \A j \in 1..(i - 1) : ~SameTitleIgnoringCase(ps[j], ps[i])
          THEN <<ps[i]>> ELSE <<>>) \o KeepFirsts(ps, i + 1)

\* no two Papers of ps have one title key
DistinctKeys(ps) ==
    \A i, j \in 1..Len(ps) : i # j => ~SameTitleIgnoringCase(ps[i], ps[j])

\* C26 as stated: duplicates are removed once, after all queries, and not per
\* query: the accumulated list is the raw adapter results of all queries, and
\* the deduplicated list is one global first-seen-wins pass over them.
C26_DedupOnlyGlobal ==
    pc = "s_done" =>
        /\ all_papers = raw
        /\ papers = KeepFirsts(raw, 1)

\* C26: duplicates are removed per query inside search_all (the list a query
\* returns holds each title key of its two providers once) and once more over
\* the accumulated list after all queries; the deduplicated list still equals
\* one global first-seen-wins pass over the raw adapter results in query order
\* then provider order, so a Paper found via two queries or two providers is
\* retained once.
C26_PerQueryThenGlobal ==
    /\ \A i \in 1..Len(srch_in) :
          ~srch_in[i].aborted =>
              srch_in[i].returned =
                  KeepFirsts(search_arxiv(srch_in[i].arxiv)
                               \o search_semantic_scholar(srch_in[i].s2), 1)
    /\ pc = "s_done" =>
          /\ qi = Len(queries)
          /\ Len(all_papers) <= Len(raw)
          /\ DistinctKeys(papers)
          /\ papers = KeepFirsts(raw, 1)

\* both providers returned one title for the first query and arXiv returned
\* it again for the second: the raw results hold it three times, the
\* accumulated list twice, the deduplicated list once
C26_Witness ==
    /\ pc = "s_done"
    /\ Len(raw) = 3
    /\ \A i \in 1..Len(raw) : SameTitleIgnoringCase(raw[i], raw[1])
    /\ Len(srch_in[1].returned) = 1
    /\ Len(all_papers) = 2
    /\ papers = <<raw[1]>>

\* the position of the trace where the stage name was entered
StageAt(name) ==
    CHOOSE i \in 1..Len(trace) : trace[i].ev = "stage" /\ trace[i].name = name

RECURSIVE CallsFrom(_)
\* the number of service calls that stand in the trace from position i on,
\* one after the other
CallsFrom(i) ==
    IF i > Len(trace) THEN 0
    ELSE IF trace[i].ev # "llm.invoke" THEN 0
    ELSE 1 + CallsFrom(i + 1)

\* the number of service calls made inside the stage name
CallsOf(name) == CallsFrom(StageAt(name) + 1)

QueryOfRequest(i) == queries[(i + 1) \div 2]

\* C28: the request an adapter sends to its source carries the caller's query
\* text and result limit, so two searches with different queries issue
\* different requests to that source.
C28_RequestCarriesQuery ==
    /\ \A i \in 1..Len(trace) :
          trace[i].ev = "request" =>
              /\ "query" \in DOMAIN trace[i].args
              /\ trace[i].args.query = QueryOfRequest(i)
              /\ \E k \in {"limit", "max_results"} :
                    k \in DOMAIN trace[i].args /\ trace[i].args[k] = 20
    /\ \A i, j \in 1..Len(trace) :
          (/\ trace[i].ev = "request" /\ trace[j].ev = "request"
           /\ trace[i].to = trace[j].to
           /\ QueryOfRequest(i) # QueryOfRequest(j)) => trace[i] # trace[j]

C30_NoLeakBetweenRuns ==
    pc = "m_done" =>
        /\ results.total_papers_found = Len(KeepFirsts(raw, 1))
        /\ \A i \in 1..Len(papers) :
              \E j \in 1..Len(raw) : papers[i].title = raw[j].title
        /\ results.screened_papers = Len(screened)
        /\ results.all_findings = extract_findings(papers, screened, ext_in)
        /\ findings = results.all_findings
        /\ results.organized_findings = organize_results(results.all_findings)
        /\ attempted = Prefix(screened, 50)
        /\ results.downloaded_papers = Succeeded(attempted)

\* a second run found one Paper and extracted one Finding after a first run
\* that had found, extracted and downloaded two
C30_Witness ==
    /\ pc = "m_done"
    /\ Runs = 2
    /\ Cardinality(disk) = 2
    /\ results.total_papers_found = 1
    /\ Len(findings) = 1
    /\ Len(results.organized_findings.empathy_definitions) = 1
    /\ Len(results.downloaded_papers) = 1

====
